---- MODULE Spec2Model ----
(***************************************************************************)
(* Model of uzb (src/main.py): scan a directory, score every file against  *)
(* a query, copy the top-N files into <root>/uzb after clearing it.         *)
(*                                                                         *)
(* Strings are sequences of one-character strings.  A path is a sequence   *)
(* of components (each a string) relative to the root directory; the       *)
(* file system is a function from paths to nodes.  Scores are exact        *)
(* rationals in hundredths, kept as numerator / denominator.               *)
(***************************************************************************)
EXTENDS Integers, Sequences, FiniteSets, TLC

(* ---- bounds ---------------------------------------------------------- *)
MaxFiles == 3
MaxN == 3
MaxUnreadable == 1

(* ---- strings --------------------------------------------------------- *)
SepCh == "/"

Lower(s) == [i \in 1..Len(s) |->
               IF s[i] = "A" THEN "a" ELSE IF s[i] = "B" THEN "b" ELSE s[i]]

Contains(q, s) ==
  \E i \in 1..(Len(s) - Len(q) + 1) : SubSeq(s, i, i + Len(q) - 1) = q

RECURSIVE CountFrom(_, _, _)
CountFrom(q, s, i) ==
  IF i + Len(q) - 1 > Len(s) THEN 0
  ELSE IF SubSeq(s, i, i + Len(q) - 1) = q
       THEN 1 + CountFrom(q, s, IF Len(q) = 0 THEN i + 1 ELSE i + Len(q))
       ELSE CountFrom(q, s, i + 1)

Count(q, s) == CountFrom(q, s, 1)

RECURSIVE Replace(_, _, _)
Replace(s, old, new) ==
  IF s = <<>> THEN <<>>
  ELSE IF Head(s) = old THEN new \o Replace(Tail(s), old, new)
       ELSE <<Head(s)>> \o Replace(Tail(s), old, new)

RFind(s, c) ==
  IF \E i \in 1..Len(s) : s[i] = c
  THEN CHOOSE i \in 1..Len(s) : s[i] = c /\ \A j \in (i+1)..Len(s) : s[j] # c
  ELSE 0

Digit(d) == <<"0", "1", "2", "3", "4", "5", "6", "7", "8", "9">>[d + 1]

RECURSIVE Str(_)
Str(i) == IF i < 10 THEN <<Digit(i)>> ELSE Str(i \div 10) \o <<Digit(i % 10)>>

RECURSIVE JoinPath(_)
JoinPath(p) ==
  IF Len(p) = 0 THEN <<>>
  ELSE IF Len(p) = 1 THEN p[1]
       ELSE p[1] \o <<SepCh>> \o JoinPath(Tail(p))

Basename(s) == SubSeq(s, RFind(s, SepCh) + 1, Len(s))

(* os.path.splitext: the extension starts at the last dot of the last     *)
(* component, unless only dots precede it in that component.              *)
splitext(p) ==
  LET sepIndex == RFind(p, SepCh)
      dotIndex == RFind(p, ".")
  IN  IF dotIndex > sepIndex
         /\ \E k \in (sepIndex + 1)..(dotIndex - 1) : p[k] # "."
      THEN <<SubSeq(p, 1, dotIndex - 1), SubSeq(p, dotIndex, Len(p))>>
      ELSE <<p, <<>>>>

(* ---- unique_flat_name ------------------------------------------------ *)
RECURSIVE FlatLoop(_, _, _, _)
FlatLoop(base, candidate, i, used_names) ==
  IF candidate \in used_names
  THEN LET se == splitext(base)
       IN  FlatLoop(base, se[1] \o <<"_", "_">> \o Str(i) \o se[2], i + 1, used_names)
  ELSE candidate

unique_flat_name_nodedup(rel_path, used_names) ==
  Replace(rel_path, SepCh, <<"_", "_">>)

unique_flat_name(rel_path, used_names) ==
  LET base == Replace(rel_path, SepCh, <<"_", "_">>)
  IN  FlatLoop(base, base, 1, used_names)

(* ---- difflib.SequenceMatcher(None, a, b).ratio() --------------------- *)
Blocks(a, b) ==
  {t \in (1..Len(a)) \X (1..Len(b)) \X (1..Len(b)) :
      /\ t[1] + t[3] - 1 <= Len(a)
      /\ t[2] + t[3] - 1 <= Len(b)
      /\ SubSeq(a, t[1], t[1] + t[3] - 1) = SubSeq(b, t[2], t[2] + t[3] - 1)}

find_longest_match(a, b) ==
  LET B == Blocks(a, b)
  IN  IF B = {} THEN <<1, 1, 0>>
      ELSE CHOOSE t \in B : \A u \in B :
             \/ t[3] > u[3]
             \/ t[3] = u[3] /\ t[1] < u[1]
             \/ t[3] = u[3] /\ t[1] = u[1] /\ t[2] <= u[2]

RECURSIVE Matched(_, _)
Matched(a, b) ==
  IF Len(a) = 0 \/ Len(b) = 0 THEN 0
  ELSE LET m == find_longest_match(a, b)
       IN  IF m[3] = 0 THEN 0
           ELSE m[3]
                + Matched(SubSeq(a, 1, m[1] - 1), SubSeq(b, 1, m[2] - 1))
                + Matched(SubSeq(a, m[1] + m[3], Len(a)), SubSeq(b, m[2] + m[3], Len(b)))

(* ratio() as the pair <<numerator, denominator>>; 1.0 for two empties *)
ratio(a, b) ==
  IF Len(a) + Len(b) = 0 THEN <<1, 1>> ELSE <<2 * Matched(a, b), Len(a) + Len(b)>>

(* ---- score_file ------------------------------------------------------ *)
Min(x, y) == IF x < y THEN x ELSE y
Max(x, y) == IF x > y THEN x ELSE y

SubstringBonus_both(q, name, rel) ==
  (IF Contains(q, name) THEN 50 ELSE 0) + (IF Contains(q, rel) THEN 25 ELSE 0)

(* lines 37-40, in hundredths *)
SubstringBonus(q, name, rel) ==
  IF Contains(q, name) THEN 50 ELSE IF Contains(q, rel) THEN 25 ELSE 0

(* lines 42-51, in hundredths; readable = FALSE is the except branch *)
ContentBonus(q, readable, sample) ==
  IF readable /\ Contains(q, Lower(sample))
  THEN Min(50, 5 * Count(q, Lower(sample)))
  ELSE 0

(* score in hundredths as num/den: 100*name_sim + 25*rel_sim + bonuses *)
score_file(rel_path, query, readable, sample) ==
  LET q    == Lower(query)
      name == Lower(Basename(rel_path))
      rel  == Lower(rel_path)
      ns   == ratio(name, q)
      rs   == ratio(rel, q)
      sb   == SubstringBonus(q, name, rel)
      cb   == ContentBonus(q, readable, sample)
  IN  [num |-> 100 * ns[1] * rs[2] + 25 * rs[1] * ns[2] + (sb + cb) * ns[2] * rs[2],
       den |-> ns[2] * rs[2],
       sub |-> sb,
       content |-> cb]

(* score a < score b, by cross-multiplication (denominators are positive) *)
Less(a, b) == a.num * b.den < b.num * a.den

(* ---- the file system ------------------------------------------------- *)
File(c)  == [kind |-> "file", data |-> c]
Dir      == [kind |-> "dir", data |-> <<>>]
Link(t)  == [kind |-> "symlink", data |-> t]
Special  == [kind |-> "special", data |-> <<>>]

nA     == <<"a">>
nUzb   == <<"u", "z", "b">>
nBt    == <<"b", ".", "t">>
nBig   == <<"B">>
nFlat  == <<"a", "_", "_", "b", ".", "t">>
nFlat1 == <<"a", "_", "_", "b", "_", "_", "1", ".", "t">>
nF     == <<"f">>
nOld   == <<"o", "l", "d">>

(* order in which a directory listing returns names *)
NameOrder == <<nBt, nFlat, nA, nFlat1, nBig, nUzb, nF, nOld>>

Idx(name) == CHOOSE i \in 1..Len(NameOrder) : NameOrder[i] = name

uzb_dir == <<nUzb>>

IsPrefix(p, r) == Len(p) <= Len(r) /\ SubSeq(r, 1, Len(p)) = p
Parent(p) == SubSeq(p, 1, Len(p) - 1)
Last(p) == p[Len(p)]

Children(f, d) == {p \in DOMAIN f : Len(p) = Len(d) + 1 /\ Parent(p) = d}

(* os.path.isfile / isdir follow symbolic links *)
isfile(f, p) ==
  /\ p \in DOMAIN f
  /\ \/ f[p].kind = "file"
     \/ f[p].kind = "symlink" /\ f[p].data \in DOMAIN f /\ f[f[p].data].kind = "file"

isdirnode(f, p) == p \in DOMAIN f /\ f[p].kind = "dir"

(* the content a read of p returns *)
ReadFile(f, p) == IF f[p].kind = "symlink" THEN f[f[p].data].data ELSE f[p].data

RECURSIVE Listing(_)
Listing(S) ==
  IF S = {} THEN <<>>
  ELSE LET m == CHOOSE p \in S : \A r \in S : Idx(Last(p)) <= Idx(Last(r))
       IN  <<m>> \o Listing(S \ {m})

(* ---- iter_files ------------------------------------------------------ *)
(* line 11: a directory d of dirpath is kept unless join(dirpath, d) is uzb_dir *)
KeepDir_anyDepth(dirpath, d) == d # nUzb

KeepDir(dirpath, d) == dirpath \o <<d>> # uzb_dir

RECURSIVE WalkDir(_, _)
RECURSIVE WalkAll(_, _)
WalkDir(f, dirpath) ==
  LET kids     == Children(f, dirpath)
      dirnames == Listing({p \in kids : isdirnode(f, p) /\ KeepDir(dirpath, Last(p))})
      here     == Listing({p \in kids : ~isdirnode(f, p) /\ isfile(f, p)})
  IN  here \o WalkAll(f, dirnames)

WalkAll(f, ds) ==
  IF ds = <<>> THEN <<>> ELSE WalkDir(f, Head(ds)) \o WalkAll(f, Tail(ds))

iter_files(f) ==
  LET ps == WalkDir(f, <<>>)
  IN  [i \in 1..Len(ps) |-> [abs |-> ps[i], rel |-> JoinPath(ps[i])]]

(* ---- sort and selection (lines 107-110) ------------------------------ *)
RECURSIVE InsertDesc_unstable(_, _)
InsertDesc_unstable(sorted, x) ==
  IF sorted = <<>> THEN <<x>>
  ELSE IF ~Less(x.score, Head(sorted).score) THEN <<x>> \o sorted
       ELSE <<Head(sorted)>> \o InsertDesc_unstable(Tail(sorted), x)

RECURSIVE InsertDesc(_, _)
InsertDesc(sorted, x) ==
  IF sorted = <<>> THEN <<x>>
  ELSE IF Less(Head(sorted).score, x.score) THEN <<x>> \o sorted
       ELSE <<Head(sorted)>> \o InsertDesc(Tail(sorted), x)

RECURSIVE SortDesc(_)
SortDesc(s) ==
  IF s = <<>> THEN <<>>
  ELSE InsertDesc(SortDesc(SubSeq(s, 1, Len(s) - 1)), s[Len(s)])

Select(sorted, nArg) ==
  LET N == Max(0, nArg) IN IF N > 0 THEN SubSeq(sorted, 1, Min(N, Len(sorted))) ELSE <<>>

(* ---- copy (lines 116-124) -------------------------------------------- *)
RECURSIVE Split(_)
Split(s) ==
  LET k == IF \E i \in 1..Len(s) : s[i] = SepCh
           THEN CHOOSE i \in 1..Len(s) : s[i] = SepCh /\ \A j \in 1..(i-1) : s[j] # SepCh
           ELSE 0
  IN  IF k = 0 THEN <<s>> ELSE <<SubSeq(s, 1, k - 1)>> \o Split(SubSeq(s, k + 1, Len(s)))

(* line 118: os.path.join(uzb_dir, dest_name) *)
DestPath(dest_name) == uzb_dir \o Split(dest_name)

(* line 119: os.makedirs(dirname(dest_path), exist_ok=True) *)
makedirs(f, d) ==
  LET missing == {SubSeq(d, 1, k) : k \in 1..Len(d)} \ DOMAIN f
  IN  [p \in DOMAIN f \cup missing |-> IF p \in DOMAIN f THEN f[p] ELSE Dir]

(* where shutil.copy2 writes: into a directory under the source's name,   *)
(* through a symbolic link to its target, else the destination itself     *)
Landing(f, src, dst) ==
  IF dst \in DOMAIN f /\ f[dst].kind = "dir" THEN dst \o <<Last(src)>>
  ELSE IF dst \in DOMAIN f /\ f[dst].kind = "symlink" THEN f[dst].data
  ELSE dst

Resolve(f, p) == IF p \in DOMAIN f /\ f[p].kind = "symlink" THEN f[p].data ELSE p

(* shutil.copy2 can succeed: not the same file, and the landing place is  *)
(* absent or a regular file                                               *)
CanCopy(f, src, dst) ==
  LET l == Landing(f, src, dst)
  IN  /\ Resolve(f, src) # l
      /\ IF l \in DOMAIN f THEN f[l].kind = "file" ELSE TRUE

WriteFile(f, p, c) ==
  [r \in DOMAIN f \cup {p} |-> IF r = p THEN File(c) ELSE f[r]]

(* ---- ensure_clean_uzb (lines 55-68) ----------------------------------- *)
Under(f, e) == {p \in DOMAIN f : IsPrefix(e, p)}

(* lines 60-63: which entries the loop tries to remove *)
Removable(f, e) == f[e].kind \in {"file", "symlink", "dir"}

(* the directory after the loop: the entries in failed raised on removal  *)
(* and stay, with the part kept of what a failed rmtree had not yet       *)
(* removed; entries that are neither file, link nor directory stay        *)
Cleared(f, failed, kept) ==
  LET entries == Children(f, uzb_dir)
      gone    == UNION {Under(f, e) : e \in {x \in entries : Removable(f, x)} \ failed}
                 \cup ((UNION {Under(f, e) : e \in failed}) \ (failed \cup kept))
  IN  [p \in DOMAIN f \ gone |-> f[p]]

(* ---- the run ----------------------------------------------------------- *)
VARIABLES pc, rootKind, fs, fs0, query, n, files, scored, ranked, top,
          used_names, copied, attempts, cleanCalls, exitCode

vars == <<pc, rootKind, fs, fs0, query, n, files, scored, ranked, top,
          used_names, copied, attempts, cleanCalls, exitCode>>

TreeUniverse == {<<nA, nBt>>, <<nFlat>>, <<nFlat1>>, <<nA, nUzb, nBig>>}

Content(p) ==
  IF p = <<nA, nBt>> THEN <<"b", "B">>
  ELSE IF p = <<nFlat>> THEN <<>>
  ELSE IF p = <<nFlat1>> THEN <<"b", "b", "b", "b", "b", "b", "b", "b", "b", "b", "b">>
  ELSE <<"a", "x">>

Queries == {<<>>, <<"B">>, <<"a">>}

(* what the output directory may hold before the run *)
StaleOptions(T) ==
  {[name |-> nFlat, node |-> File(<<"o">>), kids |-> {}]}
  \cup {[name |-> nFlat, node |-> Link(t), kids |-> {}] : t \in T \cap {<<nA, nBt>>, <<nFlat1>>}}
  \cup {[name |-> nFlat1, node |-> Dir, kids |-> {nF}]}
  \cup {[name |-> nOld, node |-> Special, kids |-> {}]}

ProperPrefixes(p) == {SubSeq(p, 1, k) : k \in 1..(Len(p) - 1)}

MkFs(T, uzbKind, S) ==
  LET dirs   == UNION {ProperPrefixes(p) : p \in T}
                \cup (IF uzbKind = "dir" THEN {uzb_dir} ELSE {})
      ufile  == IF uzbKind = "file" THEN {uzb_dir} ELSE {}
      ents   == {uzb_dir \o <<o.name>> : o \in S}
      sub    == UNION {{uzb_dir \o <<o.name, k>> : k \in o.kids} : o \in S}
      Opt(e) == CHOOSE o \in S : uzb_dir \o <<o.name>> = e
  IN  [p \in T \cup dirs \cup ufile \cup ents \cup sub |->
         IF p \in T THEN File(Content(p))
         ELSE IF p \in ents THEN Opt(p).node
         ELSE IF p \in sub THEN File(<<"o">>)
         ELSE IF p \in ufile THEN File(<<>>)
         ELSE Dir]

Init ==
  /\ pc = "start"
  /\ rootKind \in {"dir", "missing", "file"}
  /\ query \in Queries
  /\ n \in {-1, 0, 1, MaxN}
  /\ IF rootKind = "dir"
     THEN \E T \in SUBSET TreeUniverse : \E uzbKind \in {"absent", "file", "dir"} :
            \E S \in SUBSET StaleOptions(T) :
              /\ Cardinality(T) <= MaxFiles
              /\ \A o1, o2 \in S : o1.name = o2.name => o1 = o2
              /\ uzbKind # "dir" => S = {}
              /\ fs = MkFs(T, uzbKind, S)
     ELSE fs = MkFs({}, "absent", {})
  /\ fs0 = fs
  /\ files = <<>>
  /\ scored = <<>>
  /\ ranked = <<>>
  /\ top = <<>>
  /\ used_names = {}
  /\ copied = <<>>
  /\ attempts = <<>>
  /\ cleanCalls = 0
  /\ exitCode = -1

isdir_root_always == TRUE

(* line 93 *)
isdir_root == rootKind = "dir"

(* lines 92-95 *)
CheckRoot ==
  /\ pc = "start"
  /\ IF isdir_root
     THEN pc' = "walk" /\ exitCode' = exitCode
     ELSE pc' = "done" /\ exitCode' = 1
  /\ UNCHANGED <<rootKind, fs, fs0, query, n, files, scored, ranked, top,
                 used_names, copied, attempts, cleanCalls>>

(* lines 97-100 *)
ListFiles ==
  /\ pc = "walk"
  /\ files' = iter_files(fs)
  /\ IF files' = <<>>
     THEN pc' = "done" /\ exitCode' = 0
     ELSE pc' = "score" /\ exitCode' = exitCode
  /\ UNCHANGED <<rootKind, fs, fs0, query, n, scored, ranked, top,
                 used_names, copied, attempts, cleanCalls>>

(* lines 102-105; the files in unreadable raise in the content read *)
ScoreAll ==
  /\ pc = "score"
  /\ \E unreadable \in {U \in SUBSET (1..Len(files)) : Cardinality(U) <= MaxUnreadable} :
       scored' = [i \in 1..Len(files) |->
                    [score |-> score_file(files[i].rel, query, i \notin unreadable,
                                          ReadFile(fs, files[i].abs)),
                     abs |-> files[i].abs,
                     rel |-> files[i].rel]]
  /\ pc' = "sort"
  /\ UNCHANGED <<rootKind, fs, fs0, query, n, files, ranked, top,
                 used_names, copied, attempts, cleanCalls, exitCode>>

(* lines 107-110 *)
SortSelect ==
  /\ pc = "sort"
  /\ ranked' = SortDesc(scored)
  /\ top' = Select(ranked', n)
  /\ pc' = "clean"
  /\ UNCHANGED <<rootKind, fs, fs0, query, n, files, scored,
                 used_names, copied, attempts, cleanCalls, exitCode>>

(* line 112; os.scandir of a non-directory raises and ends the run *)
EnsureCleanUzb ==
  /\ pc = "clean"
  /\ cleanCalls' = cleanCalls + 1
  /\ IF uzb_dir \in DOMAIN fs
     THEN IF fs[uzb_dir].kind = "dir"
          THEN /\ \E failed \in SUBSET {e \in Children(fs, uzb_dir) : Removable(fs, e)} :
                    \E kept \in SUBSET ((UNION {Under(fs, e) : e \in failed}) \ failed) :
                      /\ \A p \in kept : Parent(p) \in failed \cup kept
                      /\ fs' = Cleared(fs, failed, kept)
               /\ pc' = "copy"
               /\ exitCode' = exitCode
          ELSE /\ fs' = fs
               /\ pc' = "crashed"
               /\ exitCode' = 1
     ELSE /\ fs' = makedirs(fs, uzb_dir)
          /\ pc' = "copy"
          /\ exitCode' = exitCode
  /\ UNCHANGED <<rootKind, fs0, query, n, files, scored, ranked, top,
                 used_names, copied, attempts>>

Cur == top[Len(attempts) + 1]

AfterFailure_abort == [pc |-> "done", exitCode |-> 1]

(* what the loop does after a copy raised (lines 123-124): go on *)
AfterFailure == [pc |-> "copy", exitCode |-> exitCode]

(* lines 116-122, shutil.copy2 returns *)
CopyOk ==
  /\ pc = "copy"
  /\ Len(attempts) < Len(top)
  /\ LET dest_name == unique_flat_name(Cur.rel, used_names)
         dest_path == DestPath(dest_name)
         f1        == makedirs(fs, Parent(dest_path))
     IN  /\ CanCopy(f1, Cur.abs, dest_path)
         /\ fs' = WriteFile(f1, Landing(f1, Cur.abs, dest_path), ReadFile(f1, Cur.abs))
         /\ used_names' = used_names \cup {dest_name}
         /\ copied' = Append(copied, [rel |-> Cur.rel, dest |-> dest_name, score |-> Cur.score])
         /\ attempts' = Append(attempts, [rel |-> Cur.rel, dest |-> dest_name, ok |-> TRUE])
  /\ UNCHANGED <<pc, rootKind, fs0, query, n, files, scored, ranked, top,
                 cleanCalls, exitCode>>

(* lines 116-124, shutil.copy2 raises: before writing, or after it has    *)
(* opened (created or truncated) the place it writes to                   *)
CopyFail ==
  /\ pc = "copy"
  /\ Len(attempts) < Len(top)
  /\ LET dest_name == unique_flat_name(Cur.rel, used_names)
         dest_path == DestPath(dest_name)
         f1        == makedirs(fs, Parent(dest_path))
     IN  /\ \/ fs' = f1
            \/ /\ CanCopy(f1, Cur.abs, dest_path)
               /\ fs' = WriteFile(f1, Landing(f1, Cur.abs, dest_path), <<>>)
         /\ used_names' = used_names \cup {dest_name}
         /\ attempts' = Append(attempts, [rel |-> Cur.rel, dest |-> dest_name, ok |-> FALSE])
  /\ pc' = AfterFailure.pc
  /\ exitCode' = AfterFailure.exitCode
  /\ UNCHANGED <<rootKind, fs0, query, n, files, scored, ranked, top,
                 copied, cleanCalls>>

(* lines 126-131, then the interpreter exits with status 0 *)
Report ==
  /\ pc = "copy"
  /\ Len(attempts) = Len(top)
  /\ pc' = "done"
  /\ exitCode' = 0
  /\ UNCHANGED <<rootKind, fs, fs0, query, n, files, scored, ranked, top,
                 used_names, copied, attempts, cleanCalls>>

Next ==
  \/ CheckRoot
  \/ ListFiles
  \/ ScoreAll
  \/ SortSelect
  \/ EnsureCleanUzb
  \/ CopyOk
  \/ CopyFail
  \/ Report

Spec == Init /\ [][Next]_vars

(* ---- properties ------------------------------------------------------- *)
Flat(rel) == Replace(rel, SepCh, <<"_", "_">>)
UzbEntries == Children(fs, uzb_dir)
Finished == pc = "done" /\ rootKind = "dir"
HasSub(q, s) == \E i, j \in 0..Len(s) : i <= j /\ SubSeq(s, i + 1, j) = q
SameScore(a, b) == ~Less(a, b) /\ ~Less(b, a)
Pos(rel) == CHOOSE i \in 1..Len(scored) : scored[i].rel = rel

(* C1: after any run on a valid root the entries of <root>/uzb are exactly *)
(* the copies of the selected files, and nothing that was there before     *)
(* the run remains.                                                        *)
C1_UzbHoldsExactlyTheCopies ==
  Finished =>
    /\ UzbEntries = {DestPath(copied[i].dest) : i \in 1..Len(copied)}
    /\ Len(copied) = Len(top)
    /\ \A e \in UzbEntries : fs[e].kind = "file"

(* C2: on every run whose root is an existing directory, ensure_clean_uzb  *)
(* is executed exactly once before the run ends.                           *)
C2_CleanedExactlyOnce ==
  (pc \in {"done", "crashed"} /\ rootKind = "dir") => cleanCalls = 1

(* C3: a run with n <= 0 on a valid root copies nothing and ends with      *)
(* <root>/uzb existing and empty.                                          *)
C3_ZeroSelectionLeavesEmptyUzb ==
  (Finished /\ n <= 0) =>
    /\ copied = <<>>
    /\ isdirnode(fs, uzb_dir)
    /\ UzbEntries = {}

(* C4: within one run unique_flat_name never returns the same name twice,  *)
(* so every selected file has its own destination name and every file      *)
(* that was copied is present in uzb under that name.                      *)
C4_DistinctDestinationNames ==
  /\ \A i, j \in 1..Len(attempts) : i # j => attempts[i].dest # attempts[j].dest
  /\ \A i \in 1..Len(copied) : DestPath(copied[i].dest) \in DOMAIN fs

C4_Witness ==
  \E i, j \in 1..Len(attempts) :
    /\ i < j
    /\ attempts[i].ok /\ attempts[j].ok
    /\ attempts[i].dest # Flat(attempts[i].rel)
    /\ Flat(attempts[j].rel) = attempts[i].dest

(* C5: the walk yields no file under <root>/uzb (no relative path starts   *)
(* with "uzb/"), and yields every other file, those under deeper           *)
(* directories named uzb included.  (files is assigned once, by           *)
(* ListFiles, which leaves pc = "score", or "done" when it is empty.)      *)
C5_WalkSkipsOnlyTopLevelUzb ==
  (pc \in {"score", "done"} /\ rootKind = "dir" /\ scored = <<>>) =>
    /\ \A i \in 1..Len(files) :
         /\ ~IsPrefix(nUzb \o <<SepCh>>, files[i].rel)
         /\ ~(Len(files[i].abs) >= 2 /\ files[i].abs[1] = nUzb)
    /\ \A p \in DOMAIN fs0 :
         (isfile(fs0, p) /\ ~(Len(p) >= 2 /\ p[1] = nUzb))
           => \E i \in 1..Len(files) : files[i].abs = p

C5_Witness ==
  /\ pc = "score"
  /\ \E i \in 1..Len(files) : files[i].abs = <<nA, nUzb, nBig>>
  /\ \E p \in DOMAIN fs0 : Len(p) >= 2 /\ p[1] = nUzb /\ isfile(fs0, p)

(* C6: when the directory argument is not an existing directory the run    *)
(* ends with exit code 1 and nothing is listed, scored, cleared, created   *)
(* or copied.                                                              *)
C6_InvalidRootHasNoEffect ==
  rootKind # "dir" =>
    /\ pc \in {"start", "done"}
    /\ pc = "done" => exitCode = 1
    /\ fs = fs0
    /\ files = <<>> /\ scored = <<>> /\ copied = <<>> /\ attempts = <<>>
    /\ cleanCalls = 0

C6_Witness == rootKind # "dir" /\ pc = "done" /\ exitCode = 1

(* C7: a failed copy does not end the batch: every selected candidate is   *)
(* attempted in ranking order, the recorded copies are exactly the         *)
(* attempts that succeeded, and the run ends with exit code 0.             *)
C7_CopyFailureDoesNotAbort ==
  /\ (\E i \in 1..Len(attempts) : ~attempts[i].ok) => pc \in {"copy", "done"}
  /\ (Finished /\ cleanCalls = 1) =>
       /\ exitCode = 0
       /\ Len(attempts) = Len(top)
       /\ \A i \in 1..Len(top) : attempts[i].rel = top[i].rel
       /\ LET Ok(a) == a.ok
              done == SelectSeq(attempts, Ok)
          IN  /\ Len(copied) = Len(done)
              /\ \A i \in 1..Len(done) :
                   copied[i].rel = done[i].rel /\ copied[i].dest = done[i].dest

C7_Witness ==
  /\ pc = "done"
  /\ \E i, j \in 1..Len(attempts) : i < j /\ ~attempts[i].ok /\ attempts[j].ok

(* C8: the ranking is the scored list in descending score order with       *)
(* equal scores kept in enumeration order, and the selection is its first  *)
(* max(0, n) elements.  (ranked and top are assigned once, by SortSelect,  *)
(* which leaves pc = "clean".)                                             *)
C8_StableDescendingSelection ==
  pc = "clean" =>
    /\ Len(ranked) = Len(scored)
    /\ \A i \in 1..Len(scored) : \E j \in 1..Len(ranked) : ranked[j] = scored[i]
    /\ \A i, j \in 1..Len(ranked) :
         i < j => /\ ~Less(ranked[i].score, ranked[j].score)
                  /\ SameScore(ranked[i].score, ranked[j].score)
                       => Pos(ranked[i].rel) < Pos(ranked[j].rel)
    /\ Len(top) = (IF n <= 0 THEN 0 ELSE IF n < Len(ranked) THEN n ELSE Len(ranked))
    /\ \A i \in 1..Len(top) : top[i] = ranked[i]

C8_Witness ==
  /\ pc = "clean"
  /\ Len(top) >= 1 /\ Len(top) < Len(ranked)
  /\ \E i, j \in 1..Len(scored) :
       i # j /\ SameScore(scored[i].score, scored[j].score)

(* C9: the score carries the 0.50 bonus when the lowercase query is in     *)
(* the lowercase basename, else the 0.25 bonus when it is in the lowercase *)
(* relative path, else none; never both.  (scored is assigned once, by    *)
(* ScoreAll, which leaves pc = "sort".)                                    *)
C9_OneSubstringBonus ==
  pc = "sort" => \A i \in 1..Len(scored) :
    LET q     == Lower(query)
        name  == Lower(Basename(scored[i].rel))
        rel   == Lower(scored[i].rel)
        ns    == ratio(name, q)
        rs    == ratio(rel, q)
        sc    == scored[i].score
        bonus == IF HasSub(q, name) THEN 50 ELSE IF HasSub(q, rel) THEN 25 ELSE 0
    IN  /\ sc.content \in 0..50
        /\ sc.num * (ns[2] * rs[2])
             = sc.den * (100 * ns[1] * rs[2] + 25 * rs[1] * ns[2]
                         + (bonus + sc.content) * ns[2] * rs[2])

C9_Witness ==
  /\ query # <<>>
  /\ \E i, j \in 1..Len(scored) :
       /\ HasSub(Lower(query), Lower(Basename(scored[i].rel)))
       /\ ~HasSub(Lower(query), Lower(Basename(scored[j].rel)))
       /\ HasSub(Lower(query), Lower(scored[j].rel))

(* C10: a run changes nothing under the root outside <root>/uzb: every     *)
(* file and directory other than uzb and its contents is as it was.        *)
C10_TreeOutsideUzbUnchanged ==
  \A p \in DOMAIN fs0 \cup DOMAIN fs :
    ~IsPrefix(uzb_dir, p) => p \in DOMAIN fs0 /\ p \in DOMAIN fs /\ fs[p] = fs0[p]

====
